---- MODULE Spec2Model ----
(***************************************************************************)
(* Greedy team selection of the Pokemon team optimizer.                    *)
(*                                                                         *)
(* Two implementations of the same selector are modelled side by side:     *)
(*   - poke.py     (command line): variables chosen_idx, remaining, ...    *)
(*   - poke_ui.py  (Qt window)   : variables ui_chosen_idx, ui_remaining.. *)
(* A DataFrame is a sequence of rows; after reset_index(drop=True) the row *)
(* labels of df are 0 .. len(df)-1, so the row labelled idx is df[idx+1].  *)
(* `remaining` is a view of df, represented by the sequence of its labels. *)
(***************************************************************************)
EXTENDS Integers, Sequences, FiniteSets, TLC

\* ---- bounds of the model ------------------------------------------------
MaxPool == 3
MaxK == 4

\* ---- program constants --------------------------------------------------
TYPE_BONUS == 20
TEAM_SIZE_MAX == 6
BONUS_SPIN_MAX == 100

\* Python's None (best_idx before any candidate was seen); labels are >= 0.
None == -1
\* pandas' missing value in the "Type 2" column.
NaN == "NaN"

\* float("-inf") and the finite scores it is compared with.
NegInf == [fin |-> FALSE, val |-> 0]
Fin(v) == [fin |-> TRUE, val |-> v]

\* ---- inputs -------------------------------------------------------------
Row(total, t1, t2) == [Total |-> total, Type1 |-> t1, Type2 |-> t2]

Catalog ==
  { Row(300, "Fire",   NaN),
    Row(250, "Water",  NaN),
    Row(400, "Fire",   "Flying"),
    Row(250, "Water",  "Flying"),
    Row(300, "Flying", NaN) }

Pools == UNION { [1..n -> Catalog] : n \in 0..MaxPool }
TeamSizes == (-1)..MaxK
Bonuses == {-300, 0, TYPE_BONUS, 50, BONUS_SPIN_MAX}

\* ---- pandas helpers -----------------------------------------------------
\* df.index after reset_index(drop=True)
index(df) == [i \in 1..Len(df) |-> i - 1]

\* df.loc[labels] : the rows with these labels, in the order of the labels
loc(df, labels) == [i \in 1..Len(labels) |-> df[labels[i] + 1]]

\* variant: the first row is dropped, whatever the label
drop_first(rem, label) == IF rem = <<>> THEN rem ELSE Tail(rem)

\* remaining.drop(label)
drop(rem, label) == SelectSeq(rem, LAMBDA x : x # label)

\* Series.dropna()
dropna(s) == SelectSeq(s, LAMBDA x : x # NaN)

\* set(series)
set(s) == { s[i] : i \in DOMAIN s }

\* Series.sum()
RECURSIVE sum(_)
sum(s) == IF s = <<>> THEN 0 ELSE Head(s) + sum(Tail(s))

\* team["Total"], team["Type 1"], team["Type 2"]
col_Total(team) == [i \in DOMAIN team |-> team[i].Total]
col_Type1(team) == [i \in DOMAIN team |-> team[i].Type1]
col_Type2(team) == [i \in DOMAIN team |-> team[i].Type2]

\* ---- poke.py ------------------------------------------------------------
\* variant: the missing "Type 2" values are not dropped
team_score_keepna(team, type_bonus) ==
  LET stat_sum == sum(col_Total(team))
      types    == set(col_Type1(team)) \cup set(col_Type2(team))
  IN  stat_sum + type_bonus * Cardinality(types)

\* variant: the types are counted per row, not as a set
team_score_nodedup(team, type_bonus) ==
  LET stat_sum == sum(col_Total(team))
  IN  stat_sum + type_bonus * (Len(col_Type1(team)) + Len(dropna(col_Type2(team))))

\* variant: team["Total"].mean() instead of .sum()
team_score_mean(team, type_bonus) ==
  LET stat_sum == IF team = <<>> THEN 0 ELSE sum(col_Total(team)) \div Len(team)
      types    == set(col_Type1(team)) \cup set(dropna(col_Type2(team)))
  IN  stat_sum + type_bonus * Cardinality(types)

team_score(team, type_bonus) ==
  LET stat_sum == sum(col_Total(team))
      types    == set(col_Type1(team)) \cup set(dropna(col_Type2(team)))
  IN  stat_sum + type_bonus * Cardinality(types)

\* variant: delta >= best_delta (the last of several equal candidates wins)
ge(delta, best_delta) == (~best_delta.fin) \/ delta >= best_delta.val

\* variant: delta < best_delta (the comparison is reversed)
lt(delta, best_delta) == (~best_delta.fin) \/ delta < best_delta.val

\* delta > best_delta
gt(delta, best_delta) == (~best_delta.fin) \/ delta > best_delta.val

\* variant: the recorded value is the gain over the current team
RECURSIVE scan_gain(_, _, _, _, _, _)
scan_gain(df, chosen, rem, type_bonus, best_idx, best_delta) ==
  IF rem = <<>>
  THEN [best_idx |-> best_idx, best_delta |-> best_delta]
  ELSE LET idx      == Head(rem)
           new_team == loc(df, Append(chosen, idx))
           delta    == team_score(new_team, type_bonus)
                         - team_score(loc(df, chosen), type_bonus)
       IN  IF gt(delta, best_delta)
           THEN scan_gain(df, chosen, Tail(rem), type_bonus, idx, Fin(delta))
           ELSE scan_gain(df, chosen, Tail(rem), type_bonus, best_idx, best_delta)

\* the for loop over remaining.iterrows(), from the given best so far
RECURSIVE scan(_, _, _, _, _, _)
scan(df, chosen, rem, type_bonus, best_idx, best_delta) ==
  IF rem = <<>>
  THEN [best_idx |-> best_idx, best_delta |-> best_delta]
  ELSE LET idx      == Head(rem)
           new_team == loc(df, Append(chosen, idx))
           delta    == team_score(new_team, type_bonus)
       IN  IF gt(delta, best_delta)
           THEN scan(df, chosen, Tail(rem), type_bonus, idx, Fin(delta))
           ELSE scan(df, chosen, Tail(rem), type_bonus, best_idx, best_delta)

\* while len(chosen_idx) < k
while_cond(chosen, k) == Len(chosen) < k

\* ---- poke_ui.py ---------------------------------------------------------
team_score_ui(team, type_bonus) ==
  LET base_power   == sum(col_Total(team))
      unique_types == set(col_Type1(team)) \cup set(dropna(col_Type2(team)))
  IN  base_power + type_bonus * Cardinality(unique_types)

\* variant: score >= best_score in the window's selector only
RECURSIVE scan_ui_ge(_, _, _, _, _, _)
scan_ui_ge(df, chosen, rem, type_bonus, best_idx, best_score) ==
  IF rem = <<>>
  THEN [best_idx |-> best_idx, best_score |-> best_score]
  ELSE LET idx            == Head(rem)
           candidate_team == loc(df, Append(chosen, idx))
           score          == team_score_ui(candidate_team, type_bonus)
       IN  IF ge(score, best_score)
           THEN scan_ui_ge(df, chosen, Tail(rem), type_bonus, idx, Fin(score))
           ELSE scan_ui_ge(df, chosen, Tail(rem), type_bonus, best_idx, best_score)

RECURSIVE scan_ui(_, _, _, _, _, _)
scan_ui(df, chosen, rem, type_bonus, best_idx, best_score) ==
  IF rem = <<>>
  THEN [best_idx |-> best_idx, best_score |-> best_score]
  ELSE LET idx            == Head(rem)
           candidate_team == loc(df, Append(chosen, idx))
           score          == team_score_ui(candidate_team, type_bonus)
       IN  IF gt(score, best_score)
           THEN scan_ui(df, chosen, Tail(rem), type_bonus, idx, Fin(score))
           ELSE scan_ui(df, chosen, Tail(rem), type_bonus, best_idx, best_score)

\* variant: len(chosen_idx) <= k
while_cond_ui_le(chosen, k, rem) == Len(chosen) <= k /\ rem # <<>>

\* while len(chosen_idx) < k and not remaining.empty
while_cond_ui(chosen, k, rem) == Len(chosen) < k /\ rem # <<>>

\* ---- state --------------------------------------------------------------
VARIABLES
  pool,            \* df: the filtered dataset handed to both selectors
  k,               \* team size
  type_bonus,      \* bonus per unique type
  pc,              \* poke.py: "loop", "raised", "returned", "done"
  chosen_idx,      \* poke.py: chosen_idx
  remaining,       \* poke.py: remaining (labels)
  best,            \* poke.py: best_idx / best_delta of the last iteration
  final_score,     \* poke.py: score printed by the module body
  ui_pc,           \* poke_ui.py: "loop", "returned", "done"
  ui_chosen_idx,   \* poke_ui.py: chosen_idx
  ui_remaining,    \* poke_ui.py: remaining (labels)
  ui_best,         \* poke_ui.py: best_idx / best_score of the last iteration
  ui_final_score   \* poke_ui.py: score shown in lbl_score

cli_vars == <<pc, chosen_idx, remaining, best, final_score>>
ui_vars  == <<ui_pc, ui_chosen_idx, ui_remaining, ui_best, ui_final_score>>
in_vars  == <<pool, k, type_bonus>>
vars     == <<pool, k, type_bonus, pc, chosen_idx, remaining, best, final_score,
              ui_pc, ui_chosen_idx, ui_remaining, ui_best, ui_final_score>>

Init ==
  /\ pool \in Pools
  /\ k \in TeamSizes
  /\ type_bonus \in Bonuses
  /\ pc = "loop"
  /\ chosen_idx = <<>>
  /\ remaining = index(pool)
  /\ best = [best_idx |-> None, best_delta |-> NegInf]
  /\ final_score = 0
  /\ ui_pc = "loop"
  /\ ui_chosen_idx = <<>>
  /\ ui_remaining = index(pool)
  /\ ui_best = [best_idx |-> None, best_score |-> NegInf]
  /\ ui_final_score = 0

\* ---- poke.py: greedy_team and the module body ---------------------------
\* one iteration of the while loop; remaining.drop(None) raises
Iterate ==
  /\ pc = "loop"
  /\ while_cond(chosen_idx, k)
  /\ LET b == scan(pool, chosen_idx, remaining, type_bonus, None, NegInf)
     IN  /\ best' = b
         /\ chosen_idx' = Append(chosen_idx, b.best_idx)
         /\ IF b.best_idx = None
            THEN /\ pc' = "raised"
                 /\ remaining' = remaining
            ELSE /\ pc' = "loop"
                 /\ remaining' = drop(remaining, b.best_idx)
  /\ UNCHANGED <<final_score, in_vars, ui_vars>>

\* return df.loc[chosen_idx]
Return ==
  /\ pc = "loop"
  /\ ~while_cond(chosen_idx, k)
  /\ pc' = "returned"
  /\ UNCHANGED <<chosen_idx, remaining, best, final_score, in_vars, ui_vars>>

\* score = team_score(team, args.type_bonus)
Score ==
  /\ pc = "returned"
  /\ final_score' = team_score(loc(pool, chosen_idx), type_bonus)
  /\ pc' = "done"
  /\ UNCHANGED <<chosen_idx, remaining, best, in_vars, ui_vars>>

\* ---- poke_ui.py: greedy_team and MainWindow._run_optimizer --------------
UiIterate ==
  /\ ui_pc = "loop"
  /\ while_cond_ui(ui_chosen_idx, k, ui_remaining)
  /\ LET b == scan_ui(pool, ui_chosen_idx, ui_remaining, type_bonus, None, NegInf)
     IN  /\ ui_best' = b
         /\ IF b.best_idx = None
            THEN /\ ui_pc' = "returned"
                 /\ UNCHANGED <<ui_chosen_idx, ui_remaining>>
            ELSE /\ ui_pc' = "loop"
                 /\ ui_chosen_idx' = Append(ui_chosen_idx, b.best_idx)
                 /\ ui_remaining' = drop(ui_remaining, b.best_idx)
  /\ UNCHANGED <<ui_final_score, in_vars, cli_vars>>

UiReturn ==
  /\ ui_pc = "loop"
  /\ ~while_cond_ui(ui_chosen_idx, k, ui_remaining)
  /\ ui_pc' = "returned"
  /\ UNCHANGED <<ui_chosen_idx, ui_remaining, ui_best, ui_final_score,
                 in_vars, cli_vars>>

\* _run_optimizer: reached only with a non-empty df and the spin box ranges
UiScore ==
  /\ ui_pc = "returned"
  /\ pool # <<>>
  /\ k \in 1..TEAM_SIZE_MAX
  /\ type_bonus \in 0..BONUS_SPIN_MAX
  /\ ui_final_score' = team_score_ui(loc(pool, ui_chosen_idx), type_bonus)
  /\ ui_pc' = "done"
  /\ UNCHANGED <<ui_chosen_idx, ui_remaining, ui_best, in_vars, cli_vars>>

Next == Iterate \/ Return \/ Score \/ UiIterate \/ UiReturn \/ UiScore

Spec == Init /\ [][Next]_vars

TypeOK ==
  /\ pc \in {"loop", "raised", "returned", "done"}
  /\ ui_pc \in {"loop", "returned", "done"}

\* ---- vocabulary of the properties ---------------------------------------
Min(a, b) == IF a <= b THEN a ELSE b
Labels == { i - 1 : i \in 1..Len(pool) }
Entities(labels) == loc(pool, labels)
NoDuplicates(s) == \A i, j \in DOMAIN s : i # j => s[i] # s[j]

\* the labels of a set, in ascending order
RECURSIVE Ascending(_)
Ascending(S) ==
  IF S = {} THEN <<>>
  ELSE LET m == CHOOSE x \in S : \A y \in S : x <= y
       IN  <<m>> \o Ascending(S \ {m})

\* the sum of Total over a set of labels
RECURSIVE TotalOver(_)
TotalOver(S) ==
  IF S = {} THEN 0
  ELSE LET x == CHOOSE y \in S : TRUE
       IN  pool[x + 1].Total + TotalOver(S \ {x})

\* the type names of the catalog; a missing value is not one of them
TypeNames == { r.Type1 : r \in Catalog } \cup ({ r.Type2 : r \in Catalog } \ {NaN})

\* the distinct categories present in a set of labels
Categories(S) ==
  { c \in TypeNames : \E x \in S : pool[x + 1].Type1 = c \/ pool[x + 1].Type2 = c }

Expected(S, b) == TotalOver(S) + b * Cardinality(Categories(S))

\* C1: the window's greedy_team returns a Team of length min(k, |pool|) for
\* k >= 0 and the empty Team for k <= 0, for every type_bonus >= 0.
C1_SizeContract ==
  (ui_pc \in {"returned", "done"} /\ type_bonus >= 0) =>
     Len(ui_chosen_idx) = (IF k <= 0 THEN 0 ELSE Min(k, Len(pool)))

C1_Witness ==
  /\ ui_pc = "returned"
  /\ type_bonus >= 0
  /\ Len(pool) >= 2
  /\ k > Len(pool)
  /\ Len(ui_chosen_idx) = Len(pool)

\* C2: the command-line greedy_team never raises on an exhausted pool and
\* never holds None in chosen_idx; it returns the empty Team or the whole pool.
C2_ExhaustionIsNoError ==
  /\ pc # "raised"
  /\ \A i \in DOMAIN chosen_idx : chosen_idx[i] # None
  /\ (pc \in {"returned", "done"} /\ k > Len(pool)) =>
        Len(chosen_idx) = Len(pool)

\* C3: team_score of a subset is the sum of Total plus the bonus times the
\* number of distinct categories of its Type 1 and present Type 2 values;
\* a missing Type 2 is no category, repeats count once, the empty subset
\* scores 0; the scores computed by the two callers obey the same formula.
C3_ScoreFormula ==
  /\ team_score(<<>>, type_bonus) = 0
  /\ team_score_ui(<<>>, type_bonus) = 0
  /\ \A S \in SUBSET Labels :
        /\ team_score(Entities(Ascending(S)), type_bonus) = Expected(S, type_bonus)
        /\ team_score_ui(Entities(Ascending(S)), type_bonus) = Expected(S, type_bonus)
  /\ pc = "done" => final_score = Expected(set(chosen_idx), type_bonus)
  /\ ui_pc = "done" => ui_final_score = Expected(set(ui_chosen_idx), type_bonus)

C3_Witness ==
  /\ pc = "done"
  /\ ui_pc = "done"
  /\ Len(chosen_idx) >= 2
  /\ type_bonus > 0
  /\ \E i \in set(chosen_idx) : pool[i + 1].Type2 = NaN
  /\ \E i, j \in set(chosen_idx) : i # j /\ pool[i + 1].Type1 = pool[j + 1].Type2
  /\ final_score = Expected(set(chosen_idx), type_bonus)

\* the candidate score of label e on top of the team so far
Candidate(team, e) == team_score(Entities(Append(team, e)), type_bonus)

\* e is a best candidate of rem and the first such in the order of rem
FirstBest(team, rem, e) ==
  /\ e \in set(rem)
  /\ \A x \in set(rem) : Candidate(team, e) >= Candidate(team, x)
  /\ \A x \in set(rem) : Candidate(team, x) = Candidate(team, e) => e <= x
  /\ \A i, j \in DOMAIN rem : (rem[j] = e /\ i < j) =>
        Candidate(team, rem[i]) < Candidate(team, e)

\* C4: in every iteration, of either selector, the entity appended to the
\* Team has a candidate score at least that of every entity of Remaining,
\* and is the first of Remaining (the smallest row label) that reaches it.
C4_FirstBestPick ==
  [][ /\ (chosen_idx' # chosen_idx /\ best'.best_idx # None) =>
           /\ chosen_idx' = Append(chosen_idx, best'.best_idx)
           /\ FirstBest(chosen_idx, remaining, best'.best_idx)
      /\ (ui_chosen_idx' # ui_chosen_idx) =>
           /\ ui_chosen_idx' = Append(ui_chosen_idx, ui_best'.best_idx)
           /\ FirstBest(ui_chosen_idx, ui_remaining, ui_best'.best_idx) ]_vars

\* a pick that was decided by the order: an entity left behind ties with it
C4_Witness ==
  /\ pc = "loop"
  /\ ui_pc = "loop"
  /\ Len(chosen_idx) >= 2
  /\ ui_chosen_idx = chosen_idx
  /\ LET n    == Len(chosen_idx)
         team == SubSeq(chosen_idx, 1, n - 1)
     IN  \E x \in set(remaining) :
            /\ Candidate(team, x) = Candidate(team, chosen_idx[n])
            /\ pool[x + 1] # pool[chosen_idx[n] + 1]

\* C5: on A(300, Fire), B(250, Water), C(400, Fire, Flying), k = 2 and
\* type_bonus = 20 the singletons score 320, 270, 440, C is picked first,
\* then A (740 against 710); the Team is [C, A] and its score is 740.
ScenarioPool ==
  << Row(300, "Fire", NaN), Row(250, "Water", NaN), Row(400, "Fire", "Flying") >>

C5_Scenario ==
  (pool = ScenarioPool /\ k = 2 /\ type_bonus = TYPE_BONUS) =>
     /\ team_score(loc(pool, <<0>>), type_bonus) = 320
     /\ team_score(loc(pool, <<1>>), type_bonus) = 270
     /\ team_score(loc(pool, <<2>>), type_bonus) = 440
     /\ team_score(loc(pool, <<2, 0>>), type_bonus) = 740
     /\ team_score(loc(pool, <<2, 1>>), type_bonus) = 710
     /\ Len(chosen_idx) >= 1 => chosen_idx[1] = 2
     /\ Len(chosen_idx) >= 2 => chosen_idx[2] = 0
     /\ pc \in {"returned", "done"} => chosen_idx = <<2, 0>>
     /\ pc = "done" => final_score = 740

C5_Witness ==
  /\ pool = ScenarioPool
  /\ k = 2
  /\ type_bonus = TYPE_BONUS
  /\ pc = "done"
  /\ chosen_idx = <<2, 0>>
  /\ final_score = 740

\* C6: for type_bonus >= 0, adding an entity (Total >= 0) that is not in a
\* subset never lowers team_score, so the score of the Team never decreases
\* from one iteration to the next.
C6_Monotone ==
  /\ [](type_bonus >= 0 =>
          \A S \in SUBSET Labels : \A e \in Labels \ S :
             pool[e + 1].Total >= 0 =>
               /\ team_score(Entities(Append(Ascending(S), e)), type_bonus)
                    >= team_score(Entities(Ascending(S)), type_bonus)
               /\ team_score_ui(Entities(Append(Ascending(S), e)), type_bonus)
                    >= team_score_ui(Entities(Ascending(S)), type_bonus))
  /\ [][ type_bonus >= 0 =>
           /\ pc' # "raised" =>
                team_score(Entities(chosen_idx'), type_bonus)
                  >= team_score(Entities(chosen_idx), type_bonus)
           /\ team_score_ui(Entities(ui_chosen_idx'), type_bonus)
                >= team_score_ui(Entities(ui_chosen_idx), type_bonus) ]_vars

C6_Witness ==
  /\ type_bonus > 0
  /\ Len(chosen_idx) >= 3
  /\ pc = "loop"
  /\ \A n \in 1..Len(chosen_idx) :
        team_score(Entities(SubSeq(chosen_idx, 1, n)), type_bonus)
          > team_score(Entities(SubSeq(chosen_idx, 1, n - 1)), type_bonus)

\* C7: when greedy_team has returned a non-empty Team, the score the caller
\* computes for it equals the best candidate score recorded in the final
\* iteration of the loop.
C7_Rescore ==
  /\ (pc = "done" /\ chosen_idx # <<>>) => best.best_delta = Fin(final_score)
  /\ (ui_pc = "done" /\ ui_chosen_idx # <<>>) => ui_best.best_score = Fin(ui_final_score)

C7_Witness ==
  /\ pc = "done"
  /\ ui_pc = "done"
  /\ Len(chosen_idx) >= 2
  /\ Len(ui_chosen_idx) >= 2
  /\ best.best_delta = Fin(final_score)
  /\ final_score > 0

Partition(team, rem) ==
  /\ NoDuplicates(team)
  /\ set(team) \cap set(rem) = {}
  /\ set(team) \cup set(rem) = Labels

\* C8: at every iteration boundary chosen_idx has no duplicate, is disjoint
\* from remaining, and together they are the pool; a completed iteration
\* appends one entity of remaining and removes exactly it from remaining.
C8_LoopInvariant ==
  /\ [](/\ pc # "raised" => Partition(chosen_idx, remaining)
        /\ Partition(ui_chosen_idx, ui_remaining))
  /\ [][ /\ (chosen_idx' # chosen_idx /\ pc' # "raised") =>
              \E e \in set(remaining) :
                 /\ chosen_idx' = Append(chosen_idx, e)
                 /\ set(remaining') = set(remaining) \ {e}
                 /\ Len(remaining') = Len(remaining) - 1
         /\ (ui_chosen_idx' # ui_chosen_idx) =>
              \E e \in set(ui_remaining) :
                 /\ ui_chosen_idx' = Append(ui_chosen_idx, e)
                 /\ set(ui_remaining') = set(ui_remaining) \ {e}
                 /\ Len(ui_remaining') = Len(ui_remaining) - 1
         /\ set(remaining') \subseteq set(remaining)
         /\ set(ui_remaining') \subseteq set(ui_remaining) ]_vars

C8_Witness ==
  /\ pc = "loop"
  /\ ui_pc = "loop"
  /\ Len(chosen_idx) >= 2
  /\ Len(ui_chosen_idx) >= 2
  /\ remaining # <<>>
  /\ chosen_idx[1] > 0
  /\ Partition(chosen_idx, remaining)

\* C9: for 0 <= k <= |pool| and type_bonus >= 0 the two selectors, after the
\* same number of iterations, hold the same Team and the same Remaining, and
\* they return the same ordered Team.
C9_SelectorsAgree ==
  (0 <= k /\ k <= Len(pool) /\ type_bonus >= 0) =>
     /\ Len(chosen_idx) = Len(ui_chosen_idx) =>
          (chosen_idx = ui_chosen_idx /\ remaining = ui_remaining)
     /\ (pc \in {"returned", "done"} /\ ui_pc \in {"returned", "done"}) =>
          chosen_idx = ui_chosen_idx
     /\ pc # "raised"

C9_Witness ==
  /\ 0 <= k /\ k <= Len(pool) /\ type_bonus >= 0
  /\ pc = "returned"
  /\ ui_pc = "returned"
  /\ Len(chosen_idx) >= 2
  /\ chosen_idx = ui_chosen_idx
  /\ chosen_idx # <<0, 1>>

\* the subsets of the pool with exactly n entities
SubsetsOfSize(n) == { S \in SUBSET Labels : Cardinality(S) = n }

NonIncreasingTotal(team) ==
  \A i, j \in DOMAIN team : i < j => pool[team[i] + 1].Total >= pool[team[j] + 1].Total

\* C10: with type_bonus = 0 and 0 <= k <= |pool| the returned Team scores
\* the maximum of team_score over all subsets of k entities, and lists its
\* entities in non-increasing order of Total.
C10_ExactAtZeroBonus ==
  (type_bonus = 0 /\ 0 <= k /\ k <= Len(pool)) =>
     /\ pc \in {"returned", "done"} =>
          /\ Len(chosen_idx) = k
          /\ \A S \in SubsetsOfSize(k) :
                team_score(Entities(chosen_idx), 0)
                  >= team_score(Entities(Ascending(S)), 0)
          /\ NonIncreasingTotal(chosen_idx)
     /\ ui_pc \in {"returned", "done"} =>
          /\ Len(ui_chosen_idx) = k
          /\ \A S \in SubsetsOfSize(k) :
                team_score_ui(Entities(ui_chosen_idx), 0)
                  >= team_score_ui(Entities(Ascending(S)), 0)
          /\ NonIncreasingTotal(ui_chosen_idx)

C10_Witness ==
  /\ type_bonus = 0
  /\ pc = "returned"
  /\ ui_pc = "returned"
  /\ k >= 2
  /\ k < Len(pool)
  /\ chosen_idx # <<0, 1>>
  /\ pool[chosen_idx[1] + 1].Total > pool[chosen_idx[2] + 1].Total
  /\ \E x \in set(remaining) : pool[x + 1].Total < pool[chosen_idx[2] + 1].Total
====
